---- MODULE Spec2Model ----
(***************************************************************************)
(* The PostgreSQL adapter of sqldef (adapter/postgres/postgres.go): the    *)
(* catalog accessors, the cursor each of them opens on the shared          *)
(* connection, and the rendering of one table's DDL.                       *)
(*                                                                         *)
(* A Go string is modelled as a sequence of lexemes (each a TLA+ string):  *)
(* concatenation is \o, fmt.Sprintf is the concatenation of its pieces.    *)
(* Catalog text whose characters matter to the code (view bodies, role     *)
(* lists, version numbers, lengths) is held one character per lexeme.      *)
(***************************************************************************)
EXTENDS Integers, Sequences, FiniteSets, TLC

VARIABLES
    db,      \* the catalog of the server the connection d.db points at
    op,      \* the exported method in progress, "idle" between calls
    arg,     \* its table argument (<<>> for the methods that take none)
    phase,   \* position in the method's sequence of catalog queries
    at,      \* "query": about to call d.db.Query; "rows": in the rows.Next loop
    rows,    \* rows the open cursor has not delivered yet
    accum,   \* the accessor's local result under construction
    res,     \* DumpTableDDL's locals: the results of the accessors that returned
    open,    \* number of *sql.Rows cursors open on the connection
    log,     \* the queries issued since the method was called
    ret,     \* what the last method returned: [op, val, err]
    ddl2     \* a second buildDumpTableDDL on the same locals

vars == <<db, op, arg, phase, at, rows, accum, res, open, log, ret, ddl2>>

---------------------------------------------------------------------------
(* Text helpers *)

\* a nil *string / SQL NULL
NULL == <<"<null>">>

\* no value yet
None == <<"<none>">>

Min(S) == CHOOSE x \in S : \A y \in S : x <= y

Last(s) == s[Len(s)]

Front(s) == SubSeq(s, 1, Len(s) - 1)

Map(F(_), s) == [i \in 1..Len(s) |-> F(s[i])]

FlatMap(F(_), s) ==
    LET f[i \in 0..Len(s)] == IF i = 0 THEN <<>> ELSE f[i - 1] \o F(s[i])
    IN  f[Len(s)]

\* strings.Join
Join(texts, sep) ==
    LET f[i \in 0..Len(texts)] ==
            IF i = 0 THEN <<>>
            ELSE IF i = 1 THEN texts[1]
            ELSE f[i - 1] \o sep \o texts[i]
    IN  f[Len(texts)]

\* strings.Split(s, sep) for a one-lexeme separator
RECURSIVE Split(_, _)
Split(s, sep) ==
    IF \A i \in 1..Len(s) : s[i] # sep
    THEN <<s>>
    ELSE LET i == Min({j \in 1..Len(s) : s[j] = sep})
         IN  <<SubSeq(s, 1, i - 1)>> \o Split(SubSeq(s, i + 1, Len(s)), sep)

\* strings.HasPrefix for a one-lexeme prefix
HasPrefix(s, p) == Len(s) > 0 /\ s[1] = p

\* strings.TrimLeft / strings.TrimRight / strings.Trim with a cutset
TrimLeft(s, cutset) ==
    LET keep == {i \in 1..Len(s) : s[i] \notin cutset}
    IN  IF keep = {} THEN <<>> ELSE SubSeq(s, Min(keep), Len(s))

TrimRight(s, cutset) ==
    LET keep == {i \in 1..Len(s) : s[i] \notin cutset}
    IN  IF keep = {} THEN <<>> ELSE SubSeq(s, 1, CHOOSE i \in keep : \A j \in keep : j <= i)

Trim(s, cutset) == TrimRight(TrimLeft(s, cutset), cutset)

\* unicode.IsSpace, restricted to the characters the model draws
WhiteSpace == {" ", "\n", "\t"}

\* strings.TrimSpace
TrimSpace(s) == Trim(s, WhiteSpace)

\* strings.ReplaceAll(s, old, "") for a one-character old
RemoveAll(s, old) == SelectSeq(s, LAMBDA c : c # old)

Digits == <<"0", "1", "2", "3", "4", "5", "6", "7", "8", "9">>

IsDigit(c) == \E i \in 1..10 : Digits[i] = c

DigitVal(c) == (CHOOSE i \in 1..10 : Digits[i] = c) - 1

\* strconv.Atoi on a string of decimal digits; [ok |-> FALSE] is its error
Atoi(s) ==
    IF Len(s) = 0 \/ \E i \in 1..Len(s) : ~IsDigit(s[i])
    THEN [ok |-> FALSE, n |-> 0]
    ELSE LET f[i \in 0..Len(s)] ==
                 IF i = 0 THEN 0 ELSE 10 * f[i - 1] + DigitVal(s[i])
         IN  [ok |-> TRUE, n |-> f[Len(s)]]

\* fmt's %d of a non-negative int
RECURSIVE Itoa(_)
Itoa(n) == IF n < 10 THEN <<Digits[n + 1]>> ELSE Itoa(n \div 10) \o <<Digits[(n % 10) + 1]>>

\* the orders in which a range over a Go map may visit the keys of S
Orders(S) ==
    {o \in [1..Cardinality(S) -> S] : \A i, j \in 1..Cardinality(S) : o[i] = o[j] => i = j}

---------------------------------------------------------------------------
(* Pure functions of the adapter *)

indent == <<"    ">>

SplitTableName(table) ==
    LET dots == {i \in 1..Len(table) : table[i] = "."}
    IN  IF dots = {}
        THEN [schema |-> <<"public">>, table |-> table]
        ELSE [schema |-> SubSeq(table, 1, Min(dots) - 1),
              table  |-> SubSeq(table, Min(dots) + 1, Len(table))]

GetDataType(c) ==
    CASE c.dataType = <<"smallint">> ->
            IF c.IsAutoIncrement THEN <<"smallserial">> ELSE c.dataType
      [] c.dataType = <<"integer">> ->
            IF c.IsAutoIncrement THEN <<"serial">> ELSE c.dataType
      [] c.dataType = <<"bigint">> ->
            IF c.IsAutoIncrement THEN <<"bigserial">> ELSE c.dataType
      [] c.dataType = <<"timestamp without time zone">> -> <<"timestamp">>
      [] c.dataType = <<"time without time zone">> -> <<"time">>
      [] OTHER -> c.dataType

\* suffixSemicolon.ReplaceAllString(s, ""): the regexp `;$`
StripSuffixSemicolon(s) == IF Len(s) > 0 /\ Last(s) = ";" THEN Front(s) ELSE s

\* spaces.ReplaceAllString(s, " "): the regexp `[ ]+`
CollapseSpaces(s) ==
    LET f[i \in 0..Len(s)] ==
            IF i = 0 THEN <<>>
            ELSE IF s[i] = " " /\ i > 1 /\ s[i - 1] = " " THEN f[i - 1]
            ELSE Append(f[i - 1], s[i])
    IN  f[Len(s)]

\* Views with the semicolon stripped before the text is trimmed
NormalizeViewDefinitionUntrimmed(definition) ==
    CollapseSpaces(RemoveAll(TrimSpace(StripSuffixSemicolon(definition)), "\n"))

\* the four rewrites Views applies to a view's definition
NormalizeViewDefinition(definition) ==
    CollapseSpaces(StripSuffixSemicolon(RemoveAll(TrimSpace(definition), "\n")))

\* policyRolesPrefixRegex (`^{`) and policyRolesSuffixRegex (`}$`)
StripRolesPrefix(roles) == IF HasPrefix(roles, "{") THEN Tail(roles) ELSE roles

StripRolesSuffix(roles) == IF Len(roles) > 0 /\ Last(roles) = "}" THEN Front(roles) ELSE roles

\* the line of one column inside CREATE TABLE; col.Check, a *columnConstraint, is
\* <<>> when nil and a one-element sequence otherwise
ColumnLine(col) ==
    <<"\"">> \o col.Name \o <<"\"", " ">> \o GetDataType(col)
    \o (IF col.Length > 0 THEN <<"(">> \o Itoa(col.Length) \o <<")">> ELSE <<>>)
    \o (IF ~col.Nullable THEN <<" NOT NULL">> ELSE <<>>)
    \o (IF col.Default # <<>> /\ ~col.IsAutoIncrement
        THEN <<" DEFAULT ">> \o col.Default ELSE <<>>)
    \o (IF col.IdentityGeneration # <<>>
        THEN <<" GENERATED ">> \o col.IdentityGeneration \o <<" AS IDENTITY">> ELSE <<>>)
    \o (IF Len(col.Check) > 0
        THEN <<" CONSTRAINT ">> \o col.Check[1].name \o <<" ">> \o col.Check[1].definition
        ELSE <<>>)

\* buildDumpTableDDL; checkOrder and uniqueOrder are the orders in which the two
\* range loops visit the keys of the maps checkConstraints and uniqueConstraints
buildDumpTableDDL(table, columns, pkeyCols, indexDefs, foreignDefs, policyDefs, checkConstraints, uniqueConstraints, checkOrder, uniqueOrder) ==
    LET body ==
            <<"CREATE TABLE ">> \o table \o <<" (">>
            \o FlatMap(LAMBDA i : (IF i > 1 THEN <<",">> ELSE <<>>)
                                  \o <<"\n">> \o indent \o ColumnLine(columns[i]),
                       [i \in 1..Len(columns) |-> i])
            \o (IF Len(pkeyCols) > 0
                THEN <<",", "\n">> \o indent \o <<"PRIMARY KEY (\"">>
                     \o Join(pkeyCols, <<"\", \"">>) \o <<"\")">>
                ELSE <<>>)
            \o FlatMap(LAMBDA k : <<",", "\n">> \o indent \o <<"CONSTRAINT ">> \o k
                                  \o <<" ">> \o checkConstraints[k],
                       checkOrder)
            \o <<"\n", ")", ";", "\n">>
        stmts ==
            FlatMap(LAMBDA v : v \o <<";", "\n">>, indexDefs)
            \o FlatMap(LAMBDA v : v \o <<";", "\n">>, foreignDefs)
            \o FlatMap(LAMBDA v : v \o <<";", "\n">>, policyDefs)
            \o FlatMap(LAMBDA k : uniqueConstraints[k] \o <<";", "\n">>, uniqueOrder)
        all == body \o stmts
    IN  \* strings.TrimSuffix(s, "\n")
        IF Last(all) = "\n" THEN Front(all) ELSE all

---------------------------------------------------------------------------
(* The catalog queries: what the server returns for each query text.       *)
(* db.attrs, db.cons, db.indexes, db.policies hold the catalog rows of     *)
(* every table of every schema; a query keeps the rows its WHERE clause    *)
(* keeps.                                                                  *)

OnTable(r, schema, table) == r.schema = schema /\ r.table = table

\* TableNames' query
TableNamesQuery(d) ==
    SelectSeq(d.tables, LAMBDA t :
        /\ t.schema \notin {<<"information_schema">>, <<"pg_catalog">>}
        /\ (t.schema # <<"public">> \/ t.name # <<"pg_buffercache">>)
        /\ t.type = "BASE TABLE")

\* Views' query: information_schema.tables joined to pg_views on the view's name
ViewsQuery(d) ==
    FlatMap(LAMBDA t :
                Map(LAMBDA v : [schema |-> t.schema, name |-> t.name, definition |-> v.definition],
                    SelectSeq(d.views, LAMBDA v : v.viewname = t.name)),
            SelectSeq(d.tables, LAMBDA t :
                /\ t.schema \notin {<<"information_schema">>, <<"pg_catalog">>, <<"repack">>}
                /\ (t.schema # <<"public">> \/ t.name # <<"pg_buffercache">>)
                /\ t.type = "VIEW"))

\* Types' query: one row per enum type, its labels aggregated with ' '
TypesQuery(d) ==
    Map(LAMBDA e : [typname |-> e.typname, labels |-> Join(e.labels, <<" ">>)], d.enums)

\* the CTE check_constraints of getColumns' query: the check constraints of the
\* table whose key array has length 1, each with the name of its column
CheckConstraintsCTE(d, schema, table) ==
    SelectSeq(d.cons, LAMBDA c :
        OnTable(c, schema, table) /\ c.contype = "c" /\ Len(c.cols) = 1)

\* getColumns' query: the table's columns by ordinal, LEFT JOINed to check_constraints
ColumnsQuery(d, schema, table) ==
    FlatMap(LAMBDA a :
                LET checks == SelectSeq(CheckConstraintsCTE(d, schema, table),
                                        LAMBDA c : c.cols[1] = a.name)
                    row(cn, cd) ==
                        [name |-> a.name, default |-> a.default, nullable |-> a.nullable,
                         maxlen |-> a.maxlen, dataType |-> a.dataType, idGen |-> a.idGen,
                         checkName |-> cn, checkDefinition |-> cd]
                IN  IF checks = <<>> THEN <<row(NULL, NULL)>>
                    ELSE Map(LAMBDA c : row(c.name, c.def), checks),
            SelectSeq(d.attrs, LAMBDA a : OnTable(a, schema, table)))

\* getPrimaryKeyColumns' query: key_column_usage of the PRIMARY KEY constraint
PrimaryKeyQuery(d, schema, table) ==
    FlatMap(LAMBDA c :
                Map(LAMBDA col : [schema |-> c.schema, name |-> c.name,
                                  table |-> c.table, column |-> col], c.cols),
            SelectSeq(d.cons, LAMBDA c : OnTable(c, schema, table) /\ c.contype = "p"))

\* unique_and_pk_constraints with contype = 'p' alone
PkConstraintsOnly(d, schema, table) ==
    {d.cons[i].name : i \in {j \in 1..Len(d.cons) :
        OnTable(d.cons[j], schema, table) /\ d.cons[j].contype = "p"}}

\* the CTE unique_and_pk_constraints of getIndexDefs' query
UniqueAndPkConstraints(d, schema, table) ==
    {d.cons[i].name : i \in {j \in 1..Len(d.cons) :
        OnTable(d.cons[j], schema, table) /\ d.cons[j].contype \in {"p", "u"}}}

\* getIndexDefs' query
IndexDefsQuery(d, schema, table) ==
    SelectSeq(d.indexes, LAMBDA x :
        OnTable(x, schema, table) /\ x.name \notin UniqueAndPkConstraints(d, schema, table))

\* information_schema.key_column_usage: the key columns of p, u and f constraints
KeyColumnUsage(d) ==
    FlatMap(LAMBDA c : Map(LAMBDA col : [name |-> c.name, column |-> col], c.cols),
            SelectSeq(d.cons, LAMBDA c : c.contype \in {"p", "u", "f"}))

\* information_schema.constraint_column_usage: the columns a constraint uses; for a
\* foreign key, the referenced columns
ConstraintColumnUsage(d) ==
    FlatMap(LAMBDA c :
                IF c.contype = "f"
                THEN Map(LAMBDA col : [name |-> c.name, schema |-> c.ref.schema,
                                       table |-> c.ref.table, column |-> col], c.ref.cols)
                ELSE Map(LAMBDA col : [name |-> c.name, schema |-> c.schema,
                                       table |-> c.table, column |-> col], c.cols),
            d.cons)

\* information_schema.referential_constraints
ReferentialConstraints(d) ==
    Map(LAMBDA c : [name |-> c.name, upd |-> c.upd, del |-> c.del],
        SelectSeq(d.cons, LAMBDA c : c.contype = "f"))

\* getForeignDefs' query: table_constraints joined to the three views above, each
\* on the constraint's name alone
ForeignDefsQuery(d, schema, table) ==
    FlatMap(LAMBDA tc :
      FlatMap(LAMBDA kcu :
        FlatMap(LAMBDA ccu :
          Map(LAMBDA rc :
                [tableSchema |-> tc.schema, constraintName |-> tc.name,
                 tableName |-> tc.table, columnName |-> kcu.column,
                 foreignTableSchema |-> ccu.schema, foreignTableName |-> ccu.table,
                 foreignColumnName |-> ccu.column,
                 foreignUpdateRule |-> rc.upd, foreignDeleteRule |-> rc.del],
              SelectSeq(ReferentialConstraints(d), LAMBDA rc : rc.name = tc.name)),
          SelectSeq(ConstraintColumnUsage(d), LAMBDA ccu : ccu.name = tc.name)),
        SelectSeq(KeyColumnUsage(d), LAMBDA kcu : kcu.name = tc.name)),
      SelectSeq(d.cons, LAMBDA c : OnTable(c, schema, table) /\ c.contype = "f"))

\* Version's query: the row of pg_settings named server_version_num
VersionQuery(d) == <<[name |-> <<"server_version_num">>, setting |-> d.version]>>

\* the constant queryPermissive of getPolicyDefs
PolicyQueryPermissive(d, schema, table) ==
    Map(LAMBDA p : [policyName |-> p.name, permissive |-> p.permissive, roles |-> p.roles,
                    cmd |-> p.cmd, using |-> p.qual, withCheck |-> p.withCheck],
        SelectSeq(d.policies, LAMBDA p : OnTable(p, schema, table)))

\* the constant queryNone of getPolicyDefs: '' in the place of permissive
PolicyQueryNone(d, schema, table) ==
    Map(LAMBDA p : [policyName |-> p.name, permissive |-> <<>>, roles |-> p.roles,
                    cmd |-> p.cmd, using |-> p.qual, withCheck |-> p.withCheck],
        SelectSeq(d.policies, LAMBDA p : OnTable(p, schema, table)))

\* getTableCheckConstraints' query: check constraints over more than one column
TableCheckConstraintsQuery(d, schema, table) ==
    SelectSeq(d.cons, LAMBDA c :
        OnTable(c, schema, table) /\ c.contype = "c" /\ Len(c.cols) > 1)

\* getUniqueConstraints' query
UniqueConstraintsQuery(d, schema, table) ==
    SelectSeq(d.cons, LAMBDA c : OnTable(c, schema, table) /\ c.contype = "u")

---------------------------------------------------------------------------
(* The body of each accessor's rows.Next loop: the result after one more row *)

\* result[key] = value on a Go map
MapPut(m, key, value) == [k \in DOMAIN m \cup {key} |-> IF k = key THEN value ELSE m[k]]

ScanTableName(tables, r) == Append(tables, r.schema \o <<".">> \o r.name)

ScanView(ddls, r) ==
    Append(ddls, <<"CREATE VIEW ">> \o r.schema \o <<".">> \o r.name \o <<" AS ">>
                 \o NormalizeViewDefinition(r.definition) \o <<";">>)

ScanType(ddls, r) ==
    Append(ddls, <<"CREATE TYPE ">> \o r.typname \o <<" AS ENUM (">>
                 \o Join(Map(LAMBDA label : <<"'">> \o label \o <<"'">>, Split(r.labels, " ")),
                         <<", ">>)
                 \o <<");">>)

ScanColumn(cols, r) ==
    Append(cols,
        [Name               |-> Trim(r.name, {"\"", " "}),
         Default            |-> IF r.default # NULL THEN r.default ELSE <<>>,
         IsAutoIncrement    |-> r.default # NULL /\ HasPrefix(r.default, "nextval("),
         Nullable           |-> r.nullable = <<"YES">>,
         dataType           |-> r.dataType,
         Length             |-> IF r.maxlen # NULL THEN Atoi(r.maxlen).n ELSE 0,
         IdentityGeneration |-> IF r.idGen # NULL THEN r.idGen ELSE <<>>,
         Check              |-> IF r.checkName # NULL /\ r.checkDefinition # NULL
                                THEN <<[definition |-> r.checkDefinition, name |-> r.checkName]>>
                                ELSE <<>>])

ScanPrimaryKeyColumn(columnNames, r) == Append(columnNames, r.column)

ScanIndexDef(indexes, r) == Append(indexes, r.def)

ScanForeignDef(defs, r) ==
    Append(defs, <<"ALTER TABLE ONLY ">> \o r.tableSchema \o <<".">> \o r.tableName
                 \o <<" ADD CONSTRAINT ">> \o r.constraintName
                 \o <<" FOREIGN KEY (">> \o r.columnName
                 \o <<") REFERENCES ">> \o r.foreignTableSchema \o <<".">> \o r.foreignTableName
                 \o <<"(">> \o r.foreignColumnName
                 \o <<") ON UPDATE ">> \o r.foreignUpdateRule
                 \o <<" ON DELETE ">> \o r.foreignDeleteRule)

ScanVersion(version, r) == r.setting

\* table is the second component of SplitTableName: the local that shadows the argument
ScanPolicyDef(defs, r, table) ==
    Append(defs, <<"CREATE POLICY ">> \o r.policyName \o <<" ON ">> \o table
                 \o <<" AS ">> \o r.permissive \o <<" FOR ">> \o r.cmd
                 \o <<" TO ">> \o StripRolesSuffix(StripRolesPrefix(r.roles))
                 \o (IF r.using # NULL THEN <<" USING ">> \o r.using ELSE <<>>)
                 \o (IF r.withCheck # NULL THEN <<" WITH CHECK ">> \o r.withCheck ELSE <<>>)
                 \o <<";">>)

ScanTableCheckConstraint(result, r) == MapPut(result, r.name, r.def)

ScanUniqueConstraint(result, r, tableName) ==
    MapPut(result, r.name,
           <<"ALTER TABLE ">> \o tableName \o <<" ADD CONSTRAINT ">> \o r.name \o <<" ">> \o r.def)

\* the loop body of accessor acc, called with the table argument t
Scan(acc, result, r, t) ==
    CASE acc = "TableNames"               -> ScanTableName(result, r)
      [] acc = "Views"                    -> ScanView(result, r)
      [] acc = "Types"                    -> ScanType(result, r)
      [] acc = "getColumns"               -> ScanColumn(result, r)
      [] acc = "getPrimaryKeyColumns"     -> ScanPrimaryKeyColumn(result, r)
      [] acc = "getIndexDefs"             -> ScanIndexDef(result, r)
      [] acc = "getForeignDefs"           -> ScanForeignDef(result, r)
      [] acc = "Version"                  -> ScanVersion(result, r)
      [] acc = "getPolicyDefs"            -> ScanPolicyDef(result, r, SplitTableName(t).table)
      [] acc = "getTableCheckConstraints" -> ScanTableCheckConstraint(result, r)
      [] acc = "getUniqueConstraints"     -> ScanUniqueConstraint(result, r, t)

\* strconv.Atoi of getColumns fails on row r
ConversionError(acc, r) ==
    acc = "getColumns" /\ r.maxlen # NULL /\ ~Atoi(r.maxlen).ok

---------------------------------------------------------------------------
(* Which queries a method issues *)

\* DumpTableDDL with getForeignDefs called before getIndexDefs
DumpTableDDLOrderSwapped ==
    <<"getColumns", "getPrimaryKeyColumns", "getForeignDefs", "getIndexDefs",
      "Version", "getPolicyDefs", "getTableCheckConstraints", "getUniqueConstraints">>

\* the catalog queries DumpTableDDL's accessors issue, in the order of its body;
\* getPolicyDefs is Version followed by its own query
DumpTableDDLOrder ==
    <<"getColumns", "getPrimaryKeyColumns", "getIndexDefs", "getForeignDefs",
      "Version", "getPolicyDefs", "getTableCheckConstraints", "getUniqueConstraints">>

Phases(o) == IF o = "DumpTableDDL" THEN DumpTableDDLOrder ELSE <<o>>

\* positions of the accessors' results among DumpTableDDL's locals
ColsAt == 1
PkeyAt == 2
IndexAt == 3
ForeignAt == 4
VersionAt == 5
PolicyAt == 6
ChecksAt == 7
UniquesAt == 8

\* the regexp `^9` of getPolicyDefs on the version string
R9Matches(version) == HasPrefix(version, "9")

\* getPolicyDefs' choice between its two query constants
PolicyQuery(version) == IF R9Matches(version) THEN "queryNone" ELSE "queryPermissive"

\* the query text accessor acc passes to d.db.Query; locals are the results so far
QueryOf(acc, locals) ==
    IF acc = "getPolicyDefs" THEN PolicyQuery(locals[VersionAt]) ELSE acc

\* the server's major release, from server_version_num
Major(version) == Atoi(version).n \div 10000

\* pg_policies has no column permissive before release 10: the server rejects
\* queryPermissive there
Rejected(q, d) == q = "queryPermissive" /\ Major(d.version) < 10

\* the result set of query q for the table argument t
QueryRows(q, d, t) ==
    LET s == SplitTableName(t) IN
    CASE q = "TableNames"               -> TableNamesQuery(d)
      [] q = "Views"                    -> ViewsQuery(d)
      [] q = "Types"                    -> TypesQuery(d)
      [] q = "getColumns"               -> ColumnsQuery(d, s.schema, s.table)
      [] q = "getPrimaryKeyColumns"     -> PrimaryKeyQuery(d, s.schema, s.table)
      [] q = "getIndexDefs"             -> IndexDefsQuery(d, s.schema, s.table)
      [] q = "getForeignDefs"           -> ForeignDefsQuery(d, s.schema, s.table)
      [] q = "Version"                  -> VersionQuery(d)
      [] q = "queryNone"                -> PolicyQueryNone(d, s.schema, s.table)
      [] q = "queryPermissive"          -> PolicyQueryPermissive(d, s.schema, s.table)
      [] q = "getTableCheckConstraints" -> TableCheckConstraintsQuery(d, s.schema, s.table)
      [] q = "getUniqueConstraints"     -> UniqueConstraintsQuery(d, s.schema, s.table)

---------------------------------------------------------------------------
(* The methods, one step per interaction with the connection *)

\* a nil error
Nil == <<>>

NoReturn == [op |-> "none", val |-> <<>>, err |-> Nil]

\* the accessor whose query is next or whose cursor is open
Acc == Phases(op)[phase]

\* Version without its defer rows.Close()
ClosedOnReturnVersionLeaks(acc) == IF acc = "Version" THEN 0 ELSE 1

\* cursors released by the accessor's deferred rows.Close() when it returns
ClosedOnReturn(acc) == 1

\* the method returns (val, err) to its caller
Returns(val, err) ==
    /\ op' = "idle" /\ phase' = 0 /\ at' = "idle"
    /\ rows' = <<>> /\ accum' = <<>>
    /\ ret' = [op |-> op, val |-> val, err |-> err]

\* the accessor in progress returns the error kind: DumpTableDDL (and getPolicyDefs
\* for Version) returns it at once with an empty result
AccessorFails(kind) == Returns(<<>>, <<kind, Acc>>) /\ res' = <<>>

\* the accessor in progress returns v and a nil error
AccessorReturns(v) ==
    IF op # "DumpTableDDL"
    THEN Returns(v, Nil) /\ res' = res
    ELSE /\ res' = Append(res, v)
         /\ rows' = <<>> /\ accum' = <<>>
         /\ phase' = IF phase < Len(Phases(op)) THEN phase + 1 ELSE phase
         /\ at' = IF phase < Len(Phases(op)) THEN "query" ELSE "build"
         /\ UNCHANGED <<op, ret>>

\* a caller invokes method o with table argument t
Call(o, t) ==
    /\ op = "idle"
    /\ op' = o /\ arg' = t /\ phase' = 1 /\ at' = "query"
    /\ rows' = <<>> /\ accum' = <<>> /\ res' = <<>> /\ log' = <<>>
    /\ ret' = NoReturn /\ ddl2' = None
    /\ UNCHANGED <<db, open>>

\* d.db.Query: the server answers with a cursor, or rejects the query
Query ==
    /\ at = "query"
    /\ log' = Append(log, QueryOf(Acc, res))
    /\ IF Rejected(QueryOf(Acc, res), db)
       THEN AccessorFails("QueryFailure") /\ open' = open
       ELSE /\ open' = open + 1
            /\ rows' = QueryRows(QueryOf(Acc, res), db, arg)
            /\ accum' = <<>>
            /\ at' = "rows"
            /\ UNCHANGED <<op, phase, res, ret>>
    /\ UNCHANGED <<db, arg, ddl2>>

\* rows.Next() is true and rows.Scan fills the locals: one turn of the loop
NextRow ==
    /\ at = "rows" /\ rows # <<>>
    /\ IF ConversionError(Acc, Head(rows))
       THEN AccessorFails("ConversionFailure") /\ open' = open - ClosedOnReturn(Acc)
       ELSE /\ accum' = Scan(Acc, accum, Head(rows), arg)
            /\ rows' = Tail(rows)
            /\ UNCHANGED <<op, phase, at, res, open, ret>>
    /\ UNCHANGED <<db, arg, log, ddl2>>

\* rows.Next() is false after the last row: the accessor returns its result
EndOfRows ==
    /\ at = "rows" /\ rows = <<>>
    /\ open' = open - ClosedOnReturn(Acc)
    /\ AccessorReturns(accum)
    /\ UNCHANGED <<db, arg, log, ddl2>>

\* buildDumpTableDDL on DumpTableDDL's locals, the two maps ranged in orders co, uo
Render(t, locals, co, uo) ==
    buildDumpTableDDL(t, locals[ColsAt], locals[PkeyAt], locals[IndexAt], locals[ForeignAt],
                      locals[PolicyAt], locals[ChecksAt], locals[UniquesAt], co, uo)

\* DumpTableDDL's last line: return buildDumpTableDDL(...), nil
Build ==
    /\ at = "build"
    /\ \E co \in Orders(DOMAIN res[ChecksAt]), uo \in Orders(DOMAIN res[UniquesAt]) :
          Returns(Render(arg, res, co, uo), Nil)
    /\ UNCHANGED <<db, arg, res, open, log, ddl2>>

\* buildDumpTableDDL called once more on the same arguments
BuildAgain ==
    /\ op = "idle" /\ ret.op = "DumpTableDDL" /\ ret.err = Nil /\ ddl2 = None
    /\ \E co \in Orders(DOMAIN res[ChecksAt]), uo \in Orders(DOMAIN res[UniquesAt]) :
          ddl2' = Render(arg, res, co, uo)
    /\ UNCHANGED <<db, op, arg, phase, at, rows, accum, res, open, log, ret>>

(* Failures of the connection *)

\* d.db.Query returns an error: no cursor is opened
QueryFails ==
    /\ at = "query"
    /\ log' = Append(log, QueryOf(Acc, res))
    /\ AccessorFails("QueryFailure")
    /\ UNCHANGED <<db, arg, open, ddl2>>

\* rows.Scan returns an error
ScanFails ==
    /\ at = "rows" /\ rows # <<>>
    /\ open' = open - ClosedOnReturn(Acc)
    /\ AccessorFails("ScanFailure")
    /\ UNCHANGED <<db, arg, log, ddl2>>

\* the connection breaks while the cursor is read: rows.Next() is false with rows
\* undelivered, the error is kept in rows.Err(), which no accessor reads, and the
\* accessor returns what it has built
NextFails ==
    /\ at = "rows" /\ rows # <<>>
    /\ open' = open - ClosedOnReturn(Acc)
    /\ AccessorReturns(accum)
    /\ UNCHANGED <<db, arg, log, ddl2>>

---------------------------------------------------------------------------
(* The catalogs the model draws *)

\* bounds of the model
MaxCons == 3
MaxIndexes == 2
MaxPolicies == 1
MaxDefLen == 6
MaxFks == 2

Public == <<"public">>
App == <<"app">>
Users == <<"users">>

\* the table arguments callers pass: a bare name and a qualified one
TableArgs == {Users, App \o <<".">> \o Users}

NoRef == [schema |-> <<>>, table |-> <<>>, cols |-> <<>>]

\* a row of pg_constraint that is no foreign key
Con(schema, table, name, contype, cols, def) ==
    [schema |-> schema, table |-> table, name |-> <<name>>, contype |-> contype,
     cols |-> cols, def |-> def, ref |-> NoRef, upd |-> <<>>, del |-> <<>>]

\* a foreign-key row of pg_constraint
Fk(schema, table, name, cols, rschema, rtable, rcols, upd, del) ==
    [schema |-> schema, table |-> table, name |-> <<name>>, contype |-> "f",
     cols |-> cols, def |-> <<>>, ref |-> [schema |-> rschema, table |-> rtable, cols |-> rcols],
     upd |-> <<upd>>, del |-> <<del>>]

Attr(schema, table, name, dataType, default, nullable, maxlen, idGen) ==
    [schema |-> schema, table |-> table, name |-> <<name>>, dataType |-> <<dataType>>,
     default |-> default, nullable |-> <<nullable>>, maxlen |-> maxlen, idGen |-> idGen]

Index(schema, table, name, def) ==
    [schema |-> schema, table |-> table, name |-> <<name>>,
     def |-> <<def>> \o <<name>> \o <<" ON ">> \o schema \o <<".">> \o table \o <<" USING btree (c)">>]

Policy(schema, table, name, permissive, roles, qual, withCheck) ==
    [schema |-> schema, table |-> table, name |-> <<name>>, permissive |-> permissive,
     roles |-> roles, cmd |-> <<"ALL">>, qual |-> qual, withCheck |-> withCheck]

\* the index PostgreSQL creates for a primary-key or unique constraint, under its name
BackingIndexes(cons) ==
    Map(LAMBDA c : Index(c.schema, c.table, c.name[1], "CREATE UNIQUE INDEX "),
        SelectSeq(cons, LAMBDA c : c.contype \in {"p", "u"}))

NextvalDefault == <<"nextval(", "'users_id_seq'::regclass", ")">>

\* server_version_num, one character per lexeme
V90624 == <<"9", "0", "6", "2", "4">>
V130005 == <<"1", "3", "0", "0", "0", "5">>

AppUsersAttrs == <<Attr(App, Users, "id", "bigint", NULL, "NO", NULL, NULL)>>

AppUsersCons ==
    <<Con(App, Users, "users_pkey", "p", << <<"id">> >>, <<"PRIMARY KEY (id)">>),
      Fk(App, Users, "users_ref_fk", << <<"id">> >>, Public, Users, << <<"id">> >>,
         "NO ACTION", "CASCADE")>>

AppUsersIndexes == <<Index(App, Users, "users_pkey", "CREATE UNIQUE INDEX ")>>

AppUsersPolicies ==
    <<Policy(App, Users, "p_app", <<"PERMISSIVE">>, <<"{", "public", "}">>, <<"true">>, NULL)>>

\* the catalog every drawn catalog varies: public.users (id serial primary key,
\* email varchar(255) not null unique) and app.users
BaseDB ==
    [version  |-> V130005,
     tables   |-> <<[schema |-> Public, name |-> Users, type |-> "BASE TABLE"],
                    [schema |-> App, name |-> Users, type |-> "BASE TABLE"],
                    [schema |-> Public, name |-> <<"pg_buffercache">>, type |-> "BASE TABLE"],
                    [schema |-> <<"pg_catalog">>, name |-> <<"pg_class">>, type |-> "BASE TABLE"],
                    [schema |-> Public, name |-> <<"active_users">>, type |-> "VIEW"]>>,
     views    |-> <<[viewname |-> <<"active_users">>,
                     definition |-> <<" ", "S", " ", " ", "1", "\n", " ", "F", ";">>]>>,
     enums    |-> <<[typname |-> <<"mood">>, labels |-> << <<"sad">>, <<"ok">> >>]>>,
     attrs    |-> <<Attr(Public, Users, "id", "integer", NextvalDefault, "NO", NULL, NULL),
                    Attr(Public, Users, "email", "character varying", NULL, "NO",
                         <<"2", "5", "5">>, NULL)>> \o AppUsersAttrs,
     cons     |-> <<Con(Public, Users, "users_pkey", "p", << <<"id">> >>, <<"PRIMARY KEY (id)">>),
                    Con(Public, Users, "users_email_key", "u", << <<"email">> >>,
                        <<"UNIQUE (email)">>)>> \o AppUsersCons,
     indexes  |-> <<Index(Public, Users, "users_pkey", "CREATE UNIQUE INDEX "),
                    Index(Public, Users, "users_email_key", "CREATE UNIQUE INDEX "),
                    Index(Public, Users, "users_email_idx", "CREATE INDEX ")>>
                  \o AppUsersIndexes,
     policies |-> <<Policy(Public, Users, "p_own", <<"PERMISSIVE">>, <<"{", "alice", ",", "bob", "}">>,
                           <<"(id = 1)">>, <<"(id = 1)">>)>> \o AppUsersPolicies]

\* the subsequences of pool with at most n elements
SubSeqs(pool, n) ==
    {SelectSeq([i \in 1..Len(pool) |-> i], LAMBDA i : i \in S) : S \in
        {S \in SUBSET (1..Len(pool)) : Cardinality(S) <= n}}

Pick(pool, idx) == [i \in 1..Len(idx) |-> pool[idx[i]]]

(* public.users with one column of every shape *)
ColumnTypes ==
    {"smallint", "integer", "bigint", "numeric", "timestamp without time zone",
     "time without time zone", "character varying"}

\* the shapes PostgreSQL accepts: an identity column is an integer column without
\* a default, nextval (a bigint) is assignable to numbers and character strings,
\* only character types have a maximum length
ValidColumn(ty, default, maxlen, idGen) ==
    /\ idGen # NULL => default = NULL /\ ty \in {"smallint", "integer", "bigint"}
    /\ default = NextvalDefault =>
          ty \in {"smallint", "integer", "bigint", "numeric", "character varying"}
    /\ default = <<"0">> => ty \in {"smallint", "integer", "bigint", "numeric"}
    /\ default = <<"now()">> =>
          ty \in {"timestamp without time zone", "time without time zone"}
    /\ maxlen # NULL => ty = "character varying"

ColumnCatalogs ==
    {[BaseDB EXCEPT !.attrs = <<Attr(Public, Users, "c", c[1], c[2], c[3], c[4], c[5])>>
                              \o AppUsersAttrs,
                    !.cons = AppUsersCons, !.indexes = AppUsersIndexes] :
        c \in {c \in ColumnTypes \X {NULL, NextvalDefault, <<"0">>, <<"now()">>} \X {"YES", "NO"}
                      \X {NULL, <<"1", "0">>} \X {NULL, <<"ALWAYS">>} :
                  ValidColumn(c[1], c[2], c[4], c[5])}}

(* public.users (a, b) with up to MaxCons of these constraints *)
ConstraintPool ==
    <<Con(Public, Users, "ck_a1", "c", << <<"a">> >>, <<"CHECK (a > 0)">>),
      Con(Public, Users, "ck_a2", "c", << <<"a">> >>, <<"CHECK (a < 9)">>),
      Con(Public, Users, "ck_b", "c", << <<"b">> >>, <<"CHECK (b > 0)">>),
      Con(Public, Users, "ck_ab", "c", << <<"a">>, <<"b">> >>, <<"CHECK (a < b)">>),
      Con(Public, Users, "ck_ba", "c", << <<"b">>, <<"a">> >>, <<"CHECK (b <> a)">>),
      Con(Public, Users, "uq_a", "u", << <<"a">> >>, <<"UNIQUE (a)">>),
      Con(Public, Users, "uq_ab", "u", << <<"a">>, <<"b">> >>, <<"UNIQUE (a, b)">>),
      Con(Public, Users, "users_pkey", "p", << <<"b">>, <<"a">> >>, <<"PRIMARY KEY (b, a)">>)>>

ConstraintCatalogs ==
    {[BaseDB EXCEPT !.attrs = <<Attr(Public, Users, "a", "integer", NULL, "NO", NULL, NULL),
                                Attr(Public, Users, "b", "integer", NULL, "YES", NULL, NULL)>>
                              \o AppUsersAttrs,
                    !.cons = Pick(ConstraintPool, idx) \o AppUsersCons,
                    !.indexes = BackingIndexes(Pick(ConstraintPool, idx)) \o AppUsersIndexes] :
        idx \in SubSeqs(ConstraintPool, MaxCons)}

(* public.users with up to MaxIndexes indexes of its own beside those that back
   its constraints, among constraints that share an index's name: on the table,
   on a table of another schema, of another type *)
IndexPool ==
    <<Index(Public, Users, "users_name_idx", "CREATE INDEX "),
      Index(Public, Users, "users_age_idx", "CREATE INDEX "),
      Index(Public, Users, "users_email_idx", "CREATE UNIQUE INDEX ")>>

IndexConstraintPool ==
    <<Con(Public, Users, "users_pkey", "p", << <<"id">> >>, <<"PRIMARY KEY (id)">>),
      Con(Public, Users, "users_email_key", "u", << <<"email">> >>, <<"UNIQUE (email)">>),
      Con(Public, Users, "users_age_idx", "c", << <<"id">> >>, <<"CHECK (id > 0)">>),
      Con(App, Users, "users_name_idx", "u", << <<"id">> >>, <<"UNIQUE (id)">>),
      Con(App, Users, "users_pkey", "p", << <<"id">> >>, <<"PRIMARY KEY (id)">>)>>

IndexCatalogs ==
    {[BaseDB EXCEPT !.cons = Pick(IndexConstraintPool, cidx),
                    !.indexes = BackingIndexes(Pick(IndexConstraintPool, cidx))
                                \o Pick(IndexPool, xidx)] :
        cidx \in SubSeqs(IndexConstraintPool, MaxCons),
        xidx \in SubSeqs(IndexPool, MaxIndexes)}

(* public.users with up to MaxPolicies policies, on servers of several releases *)
Versions ==
    {V90624, <<"9", "0", "5", "0", "0">>, <<"1", "0", "0", "0", "0", "0">>, V130005,
     <<"9", "0", "0", "0", "0", "0">>}

PolicyPool ==
    {Policy(Public, Users, "p", permissive, roles, qual, withCheck) :
        permissive \in {<<"PERMISSIVE">>, <<"RESTRICTIVE">>},
        roles \in {<<"{", "public", "}">>, <<"{", "alice", ",", "bob", "}">>},
        qual \in {NULL, <<"(id = 1)">>},
        withCheck \in {NULL, <<"(id > 0)">>}}

PolicySeqs(n) == UNION {[1..k -> PolicyPool] : k \in 0..n}

\* release 9 has no restrictive policies
PolicyCatalogs ==
    {[BaseDB EXCEPT !.version = c[1], !.policies = c[2] \o AppUsersPolicies] :
        c \in {c \in Versions \X PolicySeqs(MaxPolicies) :
                  \A i \in 1..Len(c[2]) :
                      Major(c[1]) < 10 => c[2][i].permissive = <<"PERMISSIVE">>}}

(* public.users with up to MaxFks single-column foreign keys, beside constraints
   of other tables that bear a foreign key's name: app.users always has its own
   users_ref_fk, and may have a unique constraint users_boss_fk *)
ForeignPool ==
    <<Fk(Public, Users, "users_boss_fk", << <<"email">> >>, Public, Users, << <<"email">> >>,
         "NO ACTION", "SET NULL"),
      Fk(Public, Users, "users_ref_fk", << <<"id">> >>, App, Users, << <<"id">> >>,
         "CASCADE", "NO ACTION"),
      Fk(Public, Users, "users_peer_fk", << <<"id">> >>, Public, Users, << <<"id">> >>,
         "RESTRICT", "RESTRICT")>>

ForeignNamesakePool ==
    <<Con(App, Users, "users_boss_fk", "u", << <<"id">> >>, <<"UNIQUE (id)">>)>>

ForeignCatalogs ==
    {[BaseDB EXCEPT !.cons = BaseDB.cons \o Pick(ForeignPool, fidx)
                              \o Pick(ForeignNamesakePool, nidx),
                    !.indexes = BaseDB.indexes
                                \o BackingIndexes(Pick(ForeignNamesakePool, nidx))] :
        fidx \in SubSeqs(ForeignPool, MaxFks),
        nidx \in SubSeqs(ForeignNamesakePool, MaxCons)}

(* one view whose definition is any text the catalog can hold *)
ViewChars == {"a", " ", "\n", ";"}

Texts(n) == UNION {[1..k -> ViewChars] : k \in 0..n}

\* pg_get_viewdef prints one statement: at most one terminating semicolon
IsViewDefinition(text) ==
    LET body == TrimRight(text, WhiteSpace)
        stmt == IF Len(body) > 0 /\ Last(body) = ";" THEN Front(body) ELSE body
        rest == TrimRight(stmt, WhiteSpace)
    IN  ~(Len(rest) > 0 /\ Last(rest) = ";")

ViewCatalogs ==
    {[BaseDB EXCEPT !.views = <<[viewname |-> <<"active_users">>, definition |-> text]>>] :
        text \in {t \in Texts(MaxDefLen) : IsViewDefinition(t)}}

\* a server whose character_maximum_length is no decimal number
BadLengthDB ==
    [BaseDB EXCEPT !.attrs = <<Attr(Public, Users, "id", "integer", NULL, "NO", NULL, NULL),
                               Attr(Public, Users, "email", "character varying", NULL, "NO",
                                    <<"x">>, NULL)>> \o AppUsersAttrs]

FaultCatalogs == {BaseDB, [BaseDB EXCEPT !.version = V90624], BadLengthDB}

---------------------------------------------------------------------------
(* Specifications *)

InitCall ==
    /\ op = "idle" /\ arg = <<>> /\ phase = 0 /\ at = "idle"
    /\ rows = <<>> /\ accum = <<>> /\ res = <<>> /\ open = 0
    /\ log = <<>> /\ ret = NoReturn /\ ddl2 = None

\* DumpTableDDL on a reliable connection
Init ==
    /\ db \in ColumnCatalogs \cup ConstraintCatalogs \cup IndexCatalogs \cup PolicyCatalogs
             \cup ForeignCatalogs
    /\ InitCall

Next ==
    \/ \E t \in TableArgs : Call("DumpTableDDL", t)
    \/ Query
    \/ NextRow
    \/ EndOfRows
    \/ Build
    \/ BuildAgain

Spec == Init /\ [][Next]_vars

\* Views on a reliable connection
InitViews == db \in ViewCatalogs /\ InitCall

NextViews ==
    \/ Call("Views", <<>>)
    \/ Query
    \/ NextRow
    \/ EndOfRows

SpecViews == InitViews /\ [][NextViews]_vars

\* every exported method on a connection that may fail at any step
InitFaults == db \in FaultCatalogs /\ InitCall

NextFaults ==
    \/ \E o \in {"TableNames", "Views", "Types", "Version"} : Call(o, <<>>)
    \/ \E t \in TableArgs : Call("DumpTableDDL", t)
    \/ Query
    \/ NextRow
    \/ EndOfRows
    \/ Build
    \/ QueryFails
    \/ ScanFails
    \/ NextFails

SpecFaults == InitFaults /\ [][NextFaults]_vars

---------------------------------------------------------------------------
(* What the claims speak of *)

\* DumpTableDDL has returned a DDL string
Dumped == op = "idle" /\ ret.op = "DumpTableDDL" /\ ret.err = Nil

\* the lines of a rendered text
Lines(text) == Split(text, "\n")

Count(s, P(_)) == Cardinality({i \in 1..Len(s) : P(s[i])})

Contains(line, lexeme) == \E i \in 1..Len(line) : line[i] = lexeme

\* the catalog rows of the table DumpTableDDL was called with
OfArg(catalogRows) ==
    SelectSeq(catalogRows, LAMBDA r :
        OnTable(r, SplitTableName(arg).schema, SplitTableName(arg).table))

\* the column lines of CREATE TABLE: indent, quoted name, ...
ColumnLines == SelectSeq(Lines(ret.val), LAMBDA l : Len(l) >= 6 /\ l[1] = "    " /\ l[2] = "\"")

ColumnLinesOf(name) == SelectSeq(ColumnLines, LAMBDA l : <<l[3]>> = name)

SerialFamily == {"smallserial", "serial", "bigserial"}

\* C1: two invocations of buildDumpTableDDL on the same arguments return the same
\* string, whatever the number of entries of the two constraint maps.
C1_Deterministic == ddl2 # None => ddl2 = ret.val

\* C2: the line of every column whose catalog default starts with nextval( carries a
\* serial-family type keyword and no DEFAULT clause, whatever its catalog type.
C2_AutoIncrementIsSerial ==
    Dumped =>
        \A i \in 1..Len(OfArg(db.attrs)) :
            LET a == OfArg(db.attrs)[i] IN
            (a.default # NULL /\ HasPrefix(a.default, "nextval(")) =>
                /\ ColumnLinesOf(a.name) # <<>>
                /\ \A k \in 1..Len(ColumnLinesOf(a.name)) :
                      /\ ColumnLinesOf(a.name)[k][6] \in SerialFamily
                      /\ ~Contains(ColumnLinesOf(a.name)[k], " DEFAULT ")

\* the names of the primary-key and unique constraints of the table
KeyConstraintNames ==
    {c.name : c \in {OfArg(db.cons)[i] : i \in 1..Len(OfArg(db.cons))} \cap
                    {c \in {OfArg(db.cons)[i] : i \in 1..Len(OfArg(db.cons))} :
                        c.contype = "p" \/ c.contype = "u"}}

\* C3: the index statements of the output are exactly the table's indexes named
\* like none of its primary-key or unique constraints, each once; an index of
\* another table never appears; each unique constraint is rendered once as
\* ALTER TABLE <table> ADD CONSTRAINT <name> <definition>.
C3_IndexesExceptKeyConstraints ==
    Dumped =>
        /\ \A i \in 1..Len(db.indexes) :
              LET x == db.indexes[i]
                  mine == OnTable(x, SplitTableName(arg).schema, SplitTableName(arg).table)
              IN  Count(Lines(ret.val), LAMBDA l : l = x.def \o <<";">>)
                    = IF mine /\ x.name \notin KeyConstraintNames THEN 1 ELSE 0
        /\ \A i \in 1..Len(OfArg(db.cons)) :
              LET c == OfArg(db.cons)[i] IN
              c.contype = "u" =>
                  Count(Lines(ret.val), LAMBDA l :
                            l = <<"ALTER TABLE ">> \o arg \o <<" ADD CONSTRAINT ">>
                                \o c.name \o <<" ">> \o c.def \o <<";">>) = 1

\* C3's case: the table has an index named like its unique constraint, which is
\* left out, beside an index named like a constraint of another table, which is kept
C3_Witness ==
    /\ Dumped
    /\ \E i, j \in 1..Len(OfArg(db.indexes)) :
          /\ OfArg(db.indexes)[i].name \in KeyConstraintNames
          /\ \E k \in 1..Len(OfArg(db.cons)) :
                OfArg(db.cons)[k].contype = "u" /\ OfArg(db.cons)[k].name = OfArg(db.indexes)[i].name
          /\ OfArg(db.indexes)[j].name \notin KeyConstraintNames
          /\ \E k \in 1..Len(db.cons) : db.cons[k].name = OfArg(db.indexes)[j].name
          /\ Contains(ret.val, OfArg(db.indexes)[j].name[1])

\* the permissiveness a rendered policy shows: the text between AS and FOR
ShownPermissive(def) ==
    LET as == CHOOSE i \in 1..Len(def) : def[i] = " AS "
        for == CHOOSE i \in 1..Len(def) : def[i] = " FOR "
    IN  SubSeq(def, as + 1, for - 1)

\* C4: getPolicyDefs issues the query with the hard-coded empty permissiveness
\* exactly when the server's major release is 9, and every policy then shows an
\* empty permissiveness; on every later release it issues the query reading the
\* column, and every policy shows the catalog's value.
C4_QueryNoneIffRelease9 ==
    /\ (op = "DumpTableDDL" /\ Len(log) >= PolicyAt) =>
          (log[PolicyAt] = "queryNone" <=> Major(db.version) = 9)
    /\ (op = "DumpTableDDL" /\ Len(res) >= PolicyAt) =>
          /\ Len(res[PolicyAt]) = Len(OfArg(db.policies))
          /\ \A i \in 1..Len(res[PolicyAt]) :
                ShownPermissive(res[PolicyAt][i])
                  = IF Major(db.version) = 9 THEN <<>> ELSE OfArg(db.policies)[i].permissive

\* the statement C9 expects for policy p
PolicyStatement(p, permissive) ==
    <<"CREATE POLICY ">> \o p.name \o <<" ON ">> \o SplitTableName(arg).table
    \o <<" AS ">> \o permissive \o <<" FOR ">> \o p.cmd
    \o <<" TO ">> \o SubSeq(p.roles, 2, Len(p.roles) - 1)
    \o (IF p.qual # NULL THEN <<" USING ">> \o p.qual ELSE <<>>)
    \o (IF p.withCheck # NULL THEN <<" WITH CHECK ">> \o p.withCheck ELSE <<>>)

\* C9: every policy of the table is one statement CREATE POLICY <name> ON <table> AS
\* <permissive> FOR <command> TO <roles> [USING <expr>] [WITH CHECK <expr>] ended by
\* exactly one semicolon, USING and WITH CHECK present exactly for the non-null
\* expressions, <roles> the role list without its leading { and trailing }.
C9_PolicyStatement ==
    Dumped =>
        \A i \in 1..Len(OfArg(db.policies)) :
            LET p == OfArg(db.policies)[i] IN
            Count(Lines(ret.val), LAMBDA l :
                    \E permissive \in {<<>>, p.permissive} :
                        l = PolicyStatement(p, permissive) \o <<";">>) = 1

\* C10: the body of CREATE TABLE has exactly one line per column of the table, in
\* ordinal order, with at most one inline CONSTRAINT on a line, however many
\* single-column checks a column has.
C10_OneLinePerColumn ==
    Dumped =>
        /\ Len(ColumnLines) = Len(OfArg(db.attrs))
        /\ \A i \in 1..Len(ColumnLines) :
              /\ i <= Len(OfArg(db.attrs)) => <<ColumnLines[i][3]>> = OfArg(db.attrs)[i].name
              /\ Count(ColumnLines[i], LAMBDA x : x = " CONSTRAINT ") <= 1

\* the maximal runs of characters other than the space
Words(text) == SelectSeq(Split(text, " "), LAMBDA w : w # <<>>)

\* C5: Views renders a view as CREATE VIEW <schema>.<name> AS <body>; where the
\* body is the catalog's definition without its newlines, without its terminating
\* semicolon, and with every run of spaces collapsed to one space, so that the
\* statement ends with exactly one semicolon.
C5_ViewStatement ==
    (op = "idle" /\ ret.op = "Views" /\ ret.err = Nil) =>
        LET definition == db.views[1].definition
            stmt == ret.val[1]
            body == SubSeq(stmt, 6, Len(stmt) - 1)
            text == TrimRight(definition, WhiteSpace)
            unterminated == IF Len(text) > 0 /\ Last(text) = ";" THEN Front(text) ELSE text
        IN  /\ Len(ret.val) = 1
            /\ Len(stmt) >= 6
            /\ SubSeq(stmt, 1, 5) = <<"CREATE VIEW ", "public", ".", "active_users", " AS ">>
            /\ Last(stmt) = ";"
            /\ Len(body) > 0 => Last(body) # ";"
            /\ \A i \in 1..Len(body) : body[i] # "\n"
            /\ \A i \in 1..(Len(body) - 1) : ~(body[i] = " " /\ body[i + 1] = " ")
            /\ Words(body) = Words(SelectSeq(unterminated, LAMBDA c : c # "\n"))

\* C5's case: a definition with a newline inside, a run of spaces and a
\* terminating semicolon has been rendered
C5_Witness ==
    /\ op = "idle" /\ ret.op = "Views" /\ ret.err = Nil
    /\ db.views[1].definition = <<"a", "\n", " ", " ", "a", ";">>
    /\ ret.val = << <<"CREATE VIEW ", "public", ".", "active_users", " AS ", "a", " ", "a", ";">> >>

\* the query each of DumpTableDDL's steps may issue, and the accessor issuing it
C6Order ==
    <<{"getColumns"}, {"getPrimaryKeyColumns"}, {"getIndexDefs"}, {"getForeignDefs"},
      {"Version"}, {"queryNone", "queryPermissive"}, {"getTableCheckConstraints"},
      {"getUniqueConstraints"}>>

C6Accessor ==
    <<"getColumns", "getPrimaryKeyColumns", "getIndexDefs", "getForeignDefs",
      "Version", "getPolicyDefs", "getTableCheckConstraints", "getUniqueConstraints">>

\* C6: DumpTableDDL issues its queries in the order columns, primary key, indexes,
\* foreign keys, server version, policies, checks, unique constraints, each at most
\* once; when it returns an error the DDL is empty and the accessor that failed is
\* the one that issued the last query; it returns a DDL only after all eight.
C6_FailFast ==
    (op = "DumpTableDDL" \/ (op = "idle" /\ ret.op = "DumpTableDDL")) =>
        /\ Len(log) <= 8
        /\ \A i \in 1..Len(log) : log[i] \in C6Order[i]
        /\ Len(res) <= Len(log)
        /\ (op = "idle" /\ ret.err # Nil) =>
              /\ ret.val = <<>>
              /\ Len(log) >= 1
              /\ ret.err[2] = C6Accessor[Len(log)]
        /\ (op = "idle" /\ ret.err = Nil) => (ret.val # <<>> /\ Len(log) = 8 /\ Len(res) = 8)
        /\ op = "DumpTableDDL" => ret = NoReturn

\* C6's case: the fourth accessor failed while reading its rows
C6_Witness ==
    /\ op = "idle" /\ ret.op = "DumpTableDDL"
    /\ ret.err = <<"ScanFailure", "getForeignDefs">>
    /\ ret.val = <<>>
    /\ log = <<"getColumns", "getPrimaryKeyColumns", "getIndexDefs", "getForeignDefs">>

\* the result of accessor acc built from all the rows rs
RECURSIVE ScanAll(_, _, _, _)
ScanAll(acc, result, rs, t) ==
    IF rs = <<>> THEN result
    ELSE ScanAll(acc, Scan(acc, result, Head(rs), t), Tail(rs), t)

\* C7: an accessor that returns a nil error returns the result of all the rows of
\* its query: a failure of the connection, when the query is issued or while its
\* rows are read, makes it fail, never return a result built from the first rows.
C7_NoPartialResult ==
    /\ (op = "idle" /\ ret.op \in {"TableNames", "Views", "Types", "Version"} /\ ret.err = Nil) =>
          ret.val = ScanAll(ret.op, <<>>, QueryRows(ret.op, db, arg), arg)
    /\ \A i \in 1..Len(res) :
          res[i] = ScanAll(C6Accessor[i], <<>>, QueryRows(log[i], db, arg), arg)

\* C8: at most one cursor is open at any moment, and none whenever no accessor is
\* inside its rows loop: when an accessor has returned, with a result or with an
\* error, and between the version query and the policy query of getPolicyDefs.
C8_NoCursorLeak ==
    /\ open \in {0, 1}
    /\ at # "rows" => open = 0

\* C8's case: getPolicyDefs failed on a row of its policy cursor, after Version
\* had opened and closed its own
C8_Witness ==
    /\ op = "idle" /\ ret.op = "DumpTableDDL"
    /\ ret.err = <<"ScanFailure", "getPolicyDefs">>
    /\ log[VersionAt] = "Version"
    /\ open = 0

\* the foreign keys of the table DumpTableDDL was called with
ForeignKeys == SelectSeq(OfArg(db.cons), LAMBDA c : c.contype = "f")

\* the statement C11 expects for the single-column foreign key c
ForeignStatement(c) ==
    <<"ALTER TABLE ONLY ">> \o c.schema \o <<".">> \o c.table
    \o <<" ADD CONSTRAINT ">> \o c.name
    \o <<" FOREIGN KEY (">> \o c.cols[1]
    \o <<") REFERENCES ">> \o c.ref.schema \o <<".">> \o c.ref.table
    \o <<"(">> \o c.ref.cols[1]
    \o <<") ON UPDATE ">> \o c.upd \o <<" ON DELETE ">> \o c.del

\* C11: for a table whose foreign keys are single-column, whatever the names of
\* the constraints of the other tables, getForeignDefs returns one statement per
\* foreign key of the table and no other, each naming the constraint's own key
\* column, referenced table, referenced column and rules, and the DDL that
\* DumpTableDDL returns holds each of them on exactly one line.
C11_OneStatementPerForeignKey ==
    /\ (op = "DumpTableDDL" /\ Len(res) >= ForeignAt) =>
          /\ Len(res[ForeignAt]) = Len(ForeignKeys)
          /\ \A i \in 1..Len(ForeignKeys) :
                Count(res[ForeignAt], LAMBDA def : def = ForeignStatement(ForeignKeys[i])) = 1
    /\ Dumped =>
          \A i \in 1..Len(ForeignKeys) :
              Count(Lines(ret.val),
                    LAMBDA l : l = ForeignStatement(ForeignKeys[i]) \o <<";">>) = 1


====
